---- MODULE Spec2Model ----
(***************************************************************************)
(* Marketplace application records of Twake: the ApplicationController     *)
(* (get, save, delete) over the application store.                         *)
(*                                                                         *)
(* The store holds the structured records by id.  Each action is one       *)
(* request handled from start to end; `last` records the request and what   *)
(* the handler answered, `hist` what happened to a record since it appeared. *)
(***************************************************************************)
EXTENDS Integers, Sequences, FiniteSets, TLC

\* ------------------------------------------------------------------ bounds

\* stats.version values the model follows (an update is not taken beyond it).
MaxVersion == 2
\* Date.now() answers a value in 0..MaxTime.
MaxTime == 1
\* Number of private keys randomBytes generates in one behaviour.
MaxKeys == 2

\* ------------------------------------------------------------- value sets

\* Ids the store assigns to records, and the ids a request may name.
AppIds == {"a1"}
ParamIds == {"a1"}

\* getCompanyUser's answers: no membership ("none") or the member's role.
Roles == {"admin", "member"}
Memberships == Roles \cup {"none"}

Times == 0..MaxTime

\* The details of an application a request may carry: identity, api.hooks_url,
\* api.allowed_ips, access and display.  Two values of each field; a request
\* carries the first of each, the second of each, or the first of each but one.
DetailsA ==
  [identity |-> [name |-> "Foo", repository |-> ""],
   hooks_url |-> "", allowed_ips |-> "",
   access |-> [read |-> <<>>, write |-> <<>>, delete |-> <<>>, hooks |-> <<>>],
   display |-> [twake |-> [configuration |-> <<>>]]]

DetailsB ==
  [identity |-> [name |-> "Bar", repository |-> "git"],
   hooks_url |-> "https://hooks", allowed_ips |-> "*",
   access |-> [read |-> <<>>, write |-> <<"files">>, delete |-> <<>>, hooks |-> <<>>],
   display |-> [twake |-> [configuration |-> <<"global">>]]]

Details ==
  {DetailsA, DetailsB} \cup
  { [DetailsA EXCEPT ![f] = DetailsB[f]] : f \in DOMAIN DetailsA }

\* Private keys: 0 is an absent or empty key, a negative number a key that was
\* not generated here (a legacy key, a value a caller made up), k > 0 the k-th
\* key randomBytes generated.
LegacyKey == -2
ForgedKey == -1
NoKey == 0

VARIABLES
  store,    \* the application store: id -> record, for the ids it holds
  keyCtr,   \* how many keys randomBytes has generated
  last,     \* the last request handled and its outcome
  hist      \* per stored id: where the record came from, updates since

vars == <<store, keyCtr, last, hist>>

\* The state of the other parts of the repository, each followed in a
\* specification of its own and left unused (<<>>) in the others.
VARIABLES
  imp,      \* the importer: its input and its result
  mig,      \* migrate: the legacy pages and where the handler stands
  reg,      \* the plugin registrar: the posts it received and their answers
  ev,       \* event: the membership and installations, the last event request
  race,     \* two save requests for one record, each between its awaits
  hook      \* the search hook: its inputs, requests in flight and results

Unused == <<>>


\* --------------------------------------------------------- request bodies

\* The fields of a request body that save must not take over from the caller,
\* as a caller may send them: left as a new draft has them, or all set.
ProtectedProfiles ==
  { [id |-> "a1", company_id |-> "c1", is_default |-> FALSE, published |-> FALSE,
     stats |-> [created_at |-> 0, updated_at |-> 0, version |-> 0]],
    [id |-> "a2", company_id |-> "c2", is_default |-> TRUE, published |-> TRUE,
     stats |-> [created_at |-> MaxTime, updated_at |-> MaxTime, version |-> MaxVersion]] }

\* request.body.resource: an Application as the caller sends it.  keys are the
\* api.private_key values the caller may put in it.
Bodies(keys) ==
  { [id |-> p.id, company_id |-> p.company_id, is_default |-> p.is_default,
     identity |-> d.identity,
     publication |-> [published |-> p.published, requested |-> r],
     stats |-> p.stats,
     api |-> [hooks_url |-> d.hooks_url, allowed_ips |-> d.allowed_ips,
              private_key |-> k],
     access |-> d.access, display |-> d.display] :
    p \in ProtectedProfiles, d \in Details, r \in BOOLEAN, k \in keys }

\* The keys a caller can send: none, one it made up, or the key of a stored record.
CallerKeys == {NoKey, ForgedKey} \cup {store[i].api.private_key : i \in DOMAIN store}

\* -------------------------------------------------------- the collaborators

\* marketplaceApps.get: the stored record, or nothing (<<>>) when the id is absent.
StoreGet(st, id) == IF id \in DOMAIN st THEN <<st[id]>> ELSE <<>>

\* marketplaceApps.save: the store with the record written under its id.
StoreSave(st, rec) == [i \in DOMAIN st \cup {rec.id} |-> IF i = rec.id THEN rec ELSE st[i]]

\* marketplaceApps.delete: the store without the id.
StoreDelete(st, id) == [i \in DOMAIN st \ {id} |-> st[i]]

\* entity.getApplicationObject(): the full record.
getApplicationObject(entity) == entity

\* entity.getPublicObject(): the record without its api section.
getPublicObject(entity) == [f \in DOMAIN entity \ {"api"} |-> entity[f]]

\* hasCompanyAdminLevel(role)
hasCompanyAdminLevel(role) == role = "admin"

\* randomBytes(32).toString("base64"): a key no one has seen before.
randomBytes(ctr) == ctr + 1


\* ------------------------------------------------------------ what `last` holds

\* One handled request: the operation, the application_id parameter, the body
\* (<<>> when the operation has none), Date.now() when the request wrote a
\* record (0 otherwise), the caller's membership in
\* the record's company, the answer's status and resource, whether the store's
\* save and delete were invoked, the posts sent to the plugin registrar, and
\* whether the stored record was published when the request arrived.
Outcome(op, id, app, now, role, status, resource, saved, deleteCalled, posts, wasPublished) ==
  [op |-> op, id |-> id, app |-> app, now |-> now, role |-> role, status |-> status,
   resource |-> resource, saved |-> saved, deleteCalled |-> deleteCalled,
   posts |-> posts, wasPublished |-> wasPublished]

\* hist of a record that was in the store before any request.
HistInit(rec, origin) ==
  [origin |-> origin, createdKey |-> rec.api.private_key,
   base |-> rec.stats.version, okUpdates |-> 0]

\* ------------------------------------------------------------------ save

\* _.pick(o, "identity", "api", "access", "display")
pick(o) == [identity |-> o.identity, api |-> o.api, access |-> o.access, display |-> o.display]

\* A slip of withdrawPublication: the request's flag is taken over, and
\* a withdrawn request leaves the application published.
withdrawPublication_requestOnly(entity, app) ==
  [entity EXCEPT !.publication.requested = app.publication.requested]

\* save, update branch: the request's publication.requested is taken over, and
\* withdrawing the request un-publishes.
withdrawPublication(entity, app) ==
  [entity EXCEPT !.publication =
     [requested |-> app.publication.requested,
      published |-> IF app.publication.requested = FALSE
                      THEN FALSE ELSE entity.publication.published]]

\* save, update branch: the request changes details of a published application.
publishedAndChanged(entity, app) ==
  /\ entity.publication.published
  /\ pick(entity) # pick(app)

\* A slip of applyUpdate: the version is not incremented.
applyUpdate_keepsVersion(entity, app, now) ==
  [entity EXCEPT !.identity = app.identity,
                 !.api.hooks_url = app.api.hooks_url,
                 !.api.allowed_ips = app.api.allowed_ips,
                 !.access = app.access,
                 !.display = app.display,
                 !.stats.updated_at = now]

\* A slip of applyUpdate: the whole api section is taken from the request.
applyUpdate_takesApi(entity, app, now) ==
  [entity EXCEPT !.identity = app.identity,
                 !.api = app.api,
                 !.access = app.access,
                 !.display = app.display,
                 !.stats.updated_at = now,
                 !.stats.version = @ + 1]

\* A slip of applyUpdate: is_default is taken from the request as well.
applyUpdate_takesIsDefault(entity, app, now) ==
  [entity EXCEPT !.is_default = app.is_default,
                 !.identity = app.identity,
                 !.api.hooks_url = app.api.hooks_url,
                 !.api.allowed_ips = app.api.allowed_ips,
                 !.access = app.access,
                 !.display = app.display,
                 !.stats.updated_at = now,
                 !.stats.version = @ + 1]

\* save, update branch: the fields an update takes from the request, and stats.
applyUpdate(entity, app, now) ==
  [entity EXCEPT !.identity = app.identity,
                 !.api.hooks_url = app.api.hooks_url,
                 !.api.allowed_ips = app.api.allowed_ips,
                 !.access = app.access,
                 !.display = app.display,
                 !.stats.updated_at = now,
                 !.stats.version = @ + 1]

\* A slip of insertDraft: a key the caller supplies is kept.
insertDraft_keepsCallerKey(app, now, key) ==
  [app EXCEPT !.is_default = FALSE,
              !.publication.published = FALSE,
              !.api.private_key = IF @ # NoKey THEN @ ELSE key,
              !.stats = [created_at |-> now, updated_at |-> now, version |-> 0]]

\* save, insert branch: what is forced on the draft before it is saved.
insertDraft(app, now, key) ==
  [app EXCEPT !.is_default = FALSE,
              !.publication.published = FALSE,
              !.api.private_key = key,
              !.stats = [created_at |-> now, updated_at |-> now, version |-> 0]]

\* A slip of syncPlugins: the registrar is told of every saved application.
syncPlugins_always(app, entity) ==
  << [gitRepo |-> app.identity.repository,
      pluginId |-> getApplicationObject(entity).id,
      pluginSecret |-> getApplicationObject(entity).api.private_key] >>

\* save, SYNC PLUGINS: the posts sent to the plugin registrar.
syncPlugins(app, entity) ==
  IF app.identity.repository # ""
    THEN << [gitRepo |-> app.identity.repository,
             pluginId |-> getApplicationObject(entity).id,
             pluginSecret |-> getApplicationObject(entity).api.private_key] >>
    ELSE <<>>

\* A slip of saveStatus: no check that the store found the entity, whose
\* publication is then read of nothing.
saveStatus_noNotFoundCheck(found, app) ==
  IF found = <<>>
    THEN "TypeError"
    ELSE IF publishedAndChanged(withdrawPublication(found[1], app), app)
           THEN "BadRequest"
           ELSE "ok"

\* save, update branch: the error the handler throws, or "ok".  The check of
\* a published application comes after the request's publication.requested
\* has been applied to the entity.
saveStatus(found, app) ==
  IF found = <<>>
    THEN "NotFound"
    ELSE IF publishedAndChanged(withdrawPublication(found[1], app), app)
           THEN "BadRequest"
           ELSE "ok"

\* save with an application_id: update of the stored record.
saveUpdate(id, app, now) ==
  LET found == StoreGet(store, id)
      status == saveStatus(found, app)
      wasPublished == found # <<>> /\ found[1].publication.published
  IN
  IF status # "ok"
    THEN /\ last' = Outcome("update", id, <<app>>, 0, "none", status, <<>>,
                            FALSE, FALSE, <<>>, wasPublished)
         /\ UNCHANGED <<store, keyCtr, hist>>
    ELSE
      LET updated == applyUpdate(withdrawPublication(found[1], app), app, now) IN
      /\ found[1].stats.version < MaxVersion
      /\ store' = StoreSave(store, updated)
      /\ hist' = [hist EXCEPT ![id].okUpdates = @ + 1]
      /\ last' = Outcome("update", id, <<app>>, now, "none", "ok",
                         <<getApplicationObject(updated)>>, TRUE, FALSE,
                         syncPlugins(app, updated), wasPublished)
      /\ UNCHANGED keyCtr

\* save without an application_id: insert of the draft.
saveInsert(app, now) ==
  /\ keyCtr < MaxKeys
  /\ \E newId \in AppIds \ DOMAIN store :
       LET key == randomBytes(keyCtr)
           draft == [insertDraft(app, now, key) EXCEPT !.id = newId]
       IN
       /\ keyCtr' = keyCtr + 1
       /\ store' = StoreSave(store, draft)
       /\ hist' = [i \in DOMAIN store' |->
                     IF i = newId
                       THEN [origin |-> "create", createdKey |-> key,
                             base |-> 0, okUpdates |-> 0]
                       ELSE hist[i]]
       /\ last' = Outcome("create", "", <<app>>, now, "none", "ok",
                          <<getApplicationObject(draft)>>, TRUE, FALSE,
                          syncPlugins(app, draft), FALSE)

save ==
  \E id \in ParamIds \cup {""}, app \in Bodies(CallerKeys), now \in Times :
    IF id # "" THEN saveUpdate(id, app, now) ELSE saveInsert(app, now)


\* ------------------------------------------------------------------- get

\* A slip of isAdmin: every member of the company counts as administrator.
isAdmin_anyMember(companyUser) == companyUser # "none"

\* get: isAdmin, from the caller's membership in the record's company.
isAdmin(companyUser) == companyUser # "none" /\ companyUser = "admin"

\* get: how the handler ends.  entity.company_id is read without a check that
\* the store found an entity: a TypeError when it found none.
getStatus(found) == IF found = <<>> THEN "TypeError" ELSE "ok"

get ==
  \E id \in ParamIds, companyUser \in Memberships :
    LET found == StoreGet(store, id)
        status == getStatus(found)
    IN
    /\ IF status # "ok"
         THEN last' = Outcome("get", id, <<>>, 0, "none", status, <<>>,
                              FALSE, FALSE, <<>>, FALSE)
         ELSE last' = Outcome("get", id, <<>>, 0, companyUser, "ok",
                              << IF isAdmin(companyUser)
                                   THEN getApplicationObject(found[1])
                                   ELSE getPublicObject(found[1]) >>,
                              FALSE, FALSE, <<>>, found[1].publication.published)
    /\ UNCHANGED <<store, keyCtr, hist>>

\* ---------------------------------------------------------------- delete

\* A slip of deleteForbidden: only the missing membership is refused.
deleteForbidden_membersMay(compUser) == compUser = "none"

\* delete: the caller may not delete the application.
deleteForbidden(compUser) == compUser = "none" \/ ~hasCompanyAdminLevel(compUser)

delete ==
  \E id \in ParamIds, compUser \in Memberships, deleted \in BOOLEAN :
    LET found == StoreGet(store, id) IN
    IF found = <<>>
      THEN \* application.company_id of no application: a TypeError
           /\ last' = Outcome("delete", id, <<>>, 0, "none", "TypeError", <<>>,
                              FALSE, FALSE, <<>>, FALSE)
           /\ UNCHANGED <<store, keyCtr, hist>>
      ELSE
        IF deleteForbidden(compUser)
          THEN /\ last' = Outcome("delete", id, <<>>, 0, compUser, "Forbidden", <<>>,
                                  FALSE, FALSE, <<>>, found[1].publication.published)
               /\ UNCHANGED <<store, keyCtr, hist>>
          ELSE \* the store answers {deleted}: the record is gone, or it is not
               /\ store' = IF deleted THEN StoreDelete(store, id) ELSE store
               /\ hist' = [i \in DOMAIN store' |-> hist[i]]
               /\ last' = Outcome("delete", id, <<>>, 0, compUser,
                                  IF deleted THEN "success" ELSE "error", <<>>,
                                  FALSE, TRUE, <<>>, found[1].publication.published)
               /\ UNCHANGED keyCtr

\* ------------------------------------------------------ the specification

\* A record the store may hold before the first request: one the migration
\* wrote from a legacy record (version 1, the legacy key, any publication
\* state), or one created here and published since by the moderators.
InitRecords ==
  { [id |-> "a1", company_id |-> "c1", is_default |-> dflt,
     identity |-> [name |-> "Foo", repository |-> ""],
     publication |-> [published |-> pub, requested |-> req],
     stats |-> [created_at |-> 0, updated_at |-> 0, version |-> 1],
     api |-> [hooks_url |-> "", allowed_ips |-> "", private_key |-> LegacyKey],
     access |-> [read |-> <<>>, write |-> <<>>, delete |-> <<>>, hooks |-> <<>>],
     display |-> [twake |-> [configuration |-> <<>>]]] :
    dflt \in BOOLEAN, pub \in BOOLEAN, req \in BOOLEAN }

CreatedAndPublished ==
  [id |-> "a1", company_id |-> "c1", is_default |-> FALSE,
   identity |-> [name |-> "Bar", repository |-> "git"],
   publication |-> [published |-> TRUE, requested |-> TRUE],
   stats |-> [created_at |-> 0, updated_at |-> 0, version |-> 0],
   api |-> [hooks_url |-> "https://hooks", allowed_ips |-> "*", private_key |-> 1],
   access |-> [read |-> <<>>, write |-> <<"files">>, delete |-> <<>>, hooks |-> <<>>],
   display |-> [twake |-> [configuration |-> <<"global">>]]]

NoRequest == Outcome("none", "", <<>>, 0, "none", "ok", <<>>, FALSE, FALSE, <<>>, FALSE)

Init ==
  /\ imp = Unused /\ mig = Unused /\ reg = Unused
  /\ ev = Unused /\ race = Unused /\ hook = Unused
  /\ last = NoRequest
  /\ \/ /\ store = << >>
        /\ hist = << >>
        /\ keyCtr = 0
     \/ \E rec \in InitRecords :
          /\ store = [i \in {rec.id} |-> rec]
          /\ hist = [i \in {rec.id} |-> HistInit(rec, "migrate")]
          /\ keyCtr = 0
     \/ /\ store = [i \in {"a1"} |-> CreatedAndPublished]
        /\ hist = [i \in {"a1"} |-> HistInit(CreatedAndPublished, "create")]
        /\ keyCtr = 1

Next ==
  \/ save /\ UNCHANGED <<imp, mig, reg, ev, race, hook>>
  \/ get /\ UNCHANGED <<imp, mig, reg, ev, race, hook>>
  \/ delete /\ UNCHANGED <<imp, mig, reg, ev, race, hook>>

Spec == Init /\ [][Next]_vars


\* ------------------------------------------------------------- the claims

\* The request's identity, access, display, api.hooks_url or api.allowed_ips
\* differs from the record's.
DetailsDiffer(rec, app) ==
  \/ rec.identity # app.identity
  \/ rec.access # app.access
  \/ rec.display # app.display
  \/ rec.api.hooks_url # app.api.hooks_url
  \/ rec.api.allowed_ips # app.api.allowed_ips

\* The step handled an update request for id.
UpdateOf(id) == vars' # vars /\ last'.op = "update" /\ last'.id = id

\* C1: an update of a published record whose identity, access, display,
\* api.hooks_url or api.allowed_ips differs from the stored values is rejected
\* with a validation error and leaves the stored record unchanged, whatever
\* publication.requested the request has.
C1_PublishedFrozen ==
  [][ \A id \in DOMAIN store :
        ( /\ UpdateOf(id)
          /\ store[id].publication.published
          /\ DetailsDiffer(store[id], last'.app[1]) )
        => (last'.status = "BadRequest" /\ store' = store) ]_vars

\* C2: after a successful update whose request has publication.requested =
\* false the stored record has requested = false and published = false, and
\* such an update of a published record that changes no detail succeeds.
C2_WithdrawUnpublishes ==
  [][ \A id \in DOMAIN store :
        (UpdateOf(id) /\ last'.app[1].publication.requested = FALSE)
        => /\ last'.status = "ok"
              => /\ id \in DOMAIN store'
                 /\ store'[id].publication = [published |-> FALSE, requested |-> FALSE]
           /\ (store[id].publication.published /\ ~DetailsDiffer(store[id], last'.app[1]))
              => last'.status = "ok" ]_vars

\* C2's case: the first update of a published migrated record, which withdrew
\* the request and changed no detail, has succeeded.
C2_Witness ==
  /\ last.op = "update" /\ last.status = "ok" /\ last.wasPublished
  /\ last.app[1].publication.requested = FALSE
  /\ hist[last.id].origin = "migrate" /\ hist[last.id].okUpdates = 1
  /\ ~DetailsDiffer([identity |-> DetailsA.identity, access |-> DetailsA.access,
                     display |-> DetailsA.display,
                     api |-> [hooks_url |-> DetailsA.hooks_url,
                              allowed_ips |-> DetailsA.allowed_ips]],
                    last.app[1])
  /\ store[last.id].publication = [published |-> FALSE, requested |-> FALSE]

\* C3: after N successful updates of a record, with nothing else done to it,
\* stats.version is the version it had before them plus N; a rejected update
\* (which is not counted in N) leaves the version as it is.
C3_VersionCountsUpdates ==
  \A id \in DOMAIN store :
    store[id].stats.version = hist[id].base + hist[id].okUpdates

\* C3's case: two updates of a record have succeeded.
C3_Witness ==
  \E id \in DOMAIN store :
    /\ hist[id].okUpdates = 2
    /\ store[id].stats.version = hist[id].base + 2

\* C4: the api.private_key of a record created through create is the key
\* generated at its creation, after any number of updates, accepted or
\* rejected, whatever api.private_key the requests carry.
C4_PrivateKeyKept ==
  \A id \in DOMAIN store :
    hist[id].origin = "create" => store[id].api.private_key = hist[id].createdKey

\* C4's case: a created record has been updated by a request that carried
\* another key than the record's.
C4_Witness ==
  /\ last.op = "update" /\ last.status = "ok"
  /\ hist[last.id].origin = "create" /\ hist[last.id].okUpdates >= 1
  /\ last.app[1].api.private_key = ForgedKey
  /\ store[last.id].api.private_key = hist[last.id].createdKey

\* C5: create persists and returns a record with is_default = false,
\* published = false, stats = {now, now, 0} and a newly generated, non-empty
\* private key that is not the caller's, whatever the draft carries for them.
C5_CreateForcesFields ==
  last.op = "create" =>
    /\ last.status = "ok" /\ last.saved /\ Len(last.resource) = 1
    /\ LET rec == last.resource[1] IN
       /\ rec.id \in DOMAIN store /\ store[rec.id] = rec
       /\ rec.is_default = FALSE
       /\ rec.publication.published = FALSE
       /\ rec.stats = [created_at |-> last.now, updated_at |-> last.now, version |-> 0]
       /\ rec.api.private_key # NoKey
       /\ rec.api.private_key = keyCtr
       /\ rec.api.private_key # last.app[1].api.private_key

\* C5's case: a draft that set every one of these fields has been created.
C5_Witness ==
  /\ last.op = "create"
  /\ last.app[1].is_default /\ last.app[1].publication.published
  /\ last.app[1].api.private_key = ForgedKey
  /\ last.app[1].stats.version > 0
  /\ last.now # last.app[1].stats.created_at

\* C6: a successful update leaves id, company_id, is_default and
\* stats.created_at of the stored record as they were, whatever the request
\* carries for them.
C6_UpdateKeepsProtected ==
  [][ \A id \in DOMAIN store :
        (UpdateOf(id) /\ last'.status = "ok")
        => /\ id \in DOMAIN store'
           /\ store'[id].id = store[id].id
           /\ store'[id].company_id = store[id].company_id
           /\ store'[id].is_default = store[id].is_default
           /\ store'[id].stats.created_at = store[id].stats.created_at ]_vars

\* C6's case: an update has succeeded whose request carried another id,
\* company_id, is_default and stats.created_at than the stored record has.
C6_Witness ==
  /\ last.op = "update" /\ last.status = "ok"
  /\ last.app[1].id # store[last.id].id
  /\ last.app[1].company_id # store[last.id].company_id
  /\ last.app[1].is_default # store[last.id].is_default
  /\ last.app[1].stats.created_at # store[last.id].stats.created_at

\* C7: an update of an id the store holds no record for fails with NotFound,
\* writes nothing to the store and posts nothing to the plugin registrar.
C7_UpdateOfMissing ==
  [][ \A id \in ParamIds \ DOMAIN store :
        UpdateOf(id)
        => /\ last'.status = "NotFound"
           /\ ~last'.saved /\ store' = store
           /\ last'.posts = <<>> ]_vars

\* C7's case: an update of a missing id, whose identity carries a repository,
\* has been answered NotFound.
C7_Witness ==
  /\ last.op = "update" /\ last.status = "NotFound"
  /\ last.id \notin DOMAIN store
  /\ last.app[1].identity.repository # ""

\* C8: get of an id the store holds no record for fails with NotFound, and
\* with no other failure.
C8_GetOfMissing ==
  (last.op = "get" /\ last.id \notin DOMAIN store) => last.status = "NotFound"

\* C9: get answers the full record, api.private_key included, to a caller
\* whose membership in the record's company has the administrator role, and
\* the record without its api section to every other caller, a caller with no
\* membership included.
C9_GetView ==
  (last.op = "get" /\ last.id \in DOMAIN store) =>
    /\ last.status = "ok" /\ Len(last.resource) = 1
    /\ LET rec == store[last.id]
           res == last.resource[1]
       IN
       IF last.role = "admin"
         THEN res = rec /\ res.api.private_key = rec.api.private_key
         ELSE /\ "api" \notin DOMAIN res
              /\ DOMAIN res = DOMAIN rec \ {"api"}
              /\ \A f \in DOMAIN res : res[f] = rec[f]

\* C9's case: a caller with no membership has been answered the record
\* without its api section.
C9_Witness ==
  /\ last.op = "get" /\ last.status = "ok" /\ last.role = "none"
  /\ "api" \notin DOMAIN last.resource[1]

\* C10: delete by a caller with no membership or with a role that is not
\* administrative is answered Forbidden, the store's delete is not invoked and
\* the stored record is unchanged.
C10_DeleteForbidden ==
  [][ \A id \in DOMAIN store :
        ( /\ vars' # vars /\ last'.op = "delete" /\ last'.id = id
          /\ last'.role # "admin" )
        => /\ last'.status = "Forbidden"
           /\ ~last'.deleteCalled
           /\ store' = store ]_vars

\* C10's case: an ordinary member's delete has been refused and the record is
\* still stored.
C10_Witness ==
  /\ last.op = "delete" /\ last.status = "Forbidden" /\ last.role = "member"
  /\ last.id \in DOMAIN store


\* ============================================================ the importer

\* ------------------------------------------------------------ JSON values

\* A JSON value, tagged with its type.
JNull == [type |-> "null"]
JNumber(n) == [type |-> "number", n |-> n]
JArray(items) == [type |-> "array", items |-> items]

\* What a value counts as in `x || y` and `x ? y : z`.
Truthy(v) ==
  CASE v.type = "null" -> FALSE
    [] v.type = "number" -> v.n # 0
    [] OTHER -> TRUE

\* A text column of a legacy record: null, the empty string, a text that is
\* not JSON, or the JSON text of a value.
NullText == [kind |-> "null", value |-> JNull]
EmptyText == [kind |-> "empty", value |-> JNull]
Malformed == [kind |-> "malformed", value |-> JNull]
JSONstringify(v) == [kind |-> "json", value |-> v]

\* JSON.parse(text): <<v>> with the value parsed, <<>> when it throws.  null is
\* read as the text "null"; the empty string is not JSON.
JSONparse(text) ==
  CASE text.kind = "json" -> <<text.value>>
    [] text.kind = "null" -> <<JNull>>
    [] OTHER -> <<>>

\* text || "[]"
orEmptyList(text) ==
  IF text.kind \in {"null", "empty"} THEN JSONstringify(JArray(<<>>)) ELSE text

\* The capability columns a legacy record may carry.
CapabilityTexts ==
  {NullText, EmptyText, Malformed} \cup
  { JSONstringify(v) :
      v \in {JNull, JNumber(0), JNumber(5), JArray(<<>>), JArray(<<"files">>)} }

\* --------------------------------------------- the legacy display configuration

\* DepreciatedDisplayConfiguration: each member is absent (<<>>) or present (<<m>>).
ChannelTabs == { <<>>, <<[iframe |-> <<>>]>>, <<[iframe |-> <<"https://tab">>]>> }
StandaloneApps == { <<>>, <<[iframe |-> <<>>]>>, <<[iframe |-> <<"https://app">>]>> }
Configurations ==
  { <<>> } \cup
  { <<[can_configure_in_workspace |-> w, can_configure_in_channel |-> c]>> :
      w \in BOOLEAN, c \in BOOLEAN }
DriveModules ==
  { <<>>,
    <<[can_open_files |-> <<>>, can_create_files |-> <<>>]>>,
    <<[can_open_files |->
         <<[preview_url |-> <<"https://preview">>, url |-> <<"https://edit">>,
            main_ext |-> << <<"doc">> >>, other_ext |-> <<>>]>>,
       can_create_files |-> << <<"docx">> >>]>> }
MessagesModules ==
  { <<>>,
    <<[in_plus |-> FALSE, right_icon |-> FALSE, commands |-> <<>>, action |-> <<>>]>>,
    <<[in_plus |-> TRUE, right_icon |-> FALSE, commands |-> << <<"cmd">> >>,
       action |-> <<[description |-> "Do"]>>]>> }

DisplayConfigurations ==
  { [type |-> "object", channel_tab |-> t, app |-> a, configuration |-> c,
     member_app |-> m, drive_module |-> d, messages_module |-> g] :
    t \in ChannelTabs, a \in StandaloneApps, c \in Configurations,
    m \in BOOLEAN, d \in DriveModules, g \in MessagesModules }

\* A display configuration with nothing in it.
NoDisplayConfiguration ==
  [type |-> "object", channel_tab |-> <<>>, app |-> <<>>, configuration |-> <<>>,
   member_app |-> FALSE, drive_module |-> <<>>, messages_module |-> <<>>]

\* depreciatedDisplay?.member: absent when depreciatedDisplay is null.
Member(depreciatedDisplay, member) ==
  IF depreciatedDisplay.type = "object" THEN depreciatedDisplay[member] ELSE <<>>

\* depreciatedDisplay?.member_app, a flag
memberApp(depreciatedDisplay) ==
  depreciatedDisplay.type = "object" /\ depreciatedDisplay.member_app

\* ------------------------------------------- importDepreciatedDisplayFields

\* o || dflt for a member that is absent (<<>>) or a list (<<list>>)
orList(o, dflt) == IF o = <<>> THEN dflt ELSE o[1]

\* { twake: {} }: a display none of whose members is defined.
EmptyTwake ==
  [tab |-> <<>>, standalone |-> <<>>, configuration |-> <<>>, direct |-> <<>>,
   files |-> <<>>, chat |-> <<>>]

\* The display the function fills: application.display with its twake member,
\* or a new { twake: {} } when either is missing.
displayToFill(application) ==
  IF application.display = <<>> \/ application.display[1].twake = <<>>
  THEN EmptyTwake
  ELSE application.display[1].twake[1]

\* { url: iframe } || true: the object is truthy, whatever its url.
urlOrTrue(iframe) == [type |-> "object", url |-> iframe]

tabOf(depreciatedDisplay) ==
  LET channel_tab == Member(depreciatedDisplay, "channel_tab")
  IN  IF channel_tab # <<>> THEN <<urlOrTrue(channel_tab[1].iframe)>> ELSE <<>>

standaloneOf(depreciatedDisplay) ==
  LET app == Member(depreciatedDisplay, "app")
  IN  IF app # <<>> THEN <<urlOrTrue(app[1].iframe)>> ELSE <<>>

\* The list is kept and extended instead of being started anew.
configurationOf_keepsList(twake, depreciatedDisplay) ==
  LET configuration == Member(depreciatedDisplay, "configuration")
      kept == orList(twake.configuration, <<>>)
      withGlobal ==
        IF configuration # <<>> /\ configuration[1].can_configure_in_workspace
        THEN Append(kept, "global") ELSE kept
  IN  IF configuration # <<>> /\ configuration[1].can_configure_in_channel
      THEN Append(withGlobal, "channel") ELSE withGlobal

\* display.twake.configuration: a new list, whatever twake held, with "global"
\* pushed when the workspace may configure and then "channel" when a channel may.
configurationOf(twake, depreciatedDisplay) ==
  LET configuration == Member(depreciatedDisplay, "configuration")
      reset == <<>>
      withGlobal ==
        IF configuration # <<>> /\ configuration[1].can_configure_in_workspace
        THEN Append(reset, "global") ELSE reset
  IN  IF configuration # <<>> /\ configuration[1].can_configure_in_channel
      THEN Append(withGlobal, "channel") ELSE withGlobal

directOf(application, depreciatedDisplay) ==
  IF memberApp(depreciatedDisplay)
  THEN <<[type |-> "object", name |-> application.identity.name,
          icon |-> application.identity.icon]>>
  ELSE <<>>

\* display.twake.files, written only when the legacy display has a drive module.
filesOf(twake, depreciatedDisplay) ==
  LET drive_module == Member(depreciatedDisplay, "drive_module")
      can_open_files == IF drive_module = <<>> THEN <<>> ELSE drive_module[1].can_open_files
  IN  IF drive_module = <<>> THEN twake.files
      ELSE <<[editor |->
                [preview_url |-> IF can_open_files = <<>> THEN <<>>
                                 ELSE can_open_files[1].preview_url,
                 edition_url |-> IF can_open_files = <<>> THEN <<>>
                                 ELSE can_open_files[1].url,
                 extensions |->
                   IF can_open_files = <<>> THEN <<>>
                   ELSE orList(can_open_files[1].main_ext, <<>>) \o
                        orList(can_open_files[1].other_ext, <<>>),
                 empty_files |-> orList(drive_module[1].can_create_files, <<>>)],
              actions |-> <<>>]>>

\* The block that writes chat has slipped into the one of the drive module.
chatOf_insideDriveModule(application, twake, depreciatedDisplay) ==
  LET messages_module == Member(depreciatedDisplay, "messages_module")
  IN  IF messages_module = <<>> \/ Member(depreciatedDisplay, "drive_module") = <<>>
      THEN twake.chat
      ELSE <<[input |->
                IF messages_module[1].in_plus \/ messages_module[1].right_icon
                THEN <<[icon |-> application.identity.icon]>> ELSE <<>>,
              commands |-> messages_module[1].commands,
              actions |->
                IF messages_module[1].action # <<>>
                THEN << <<[name |-> messages_module[1].action[1].description,
                           id |-> "default"]>> >>
                ELSE <<>>]>>

\* display.twake.chat, written only when the legacy display has a messages module.
chatOf(application, twake, depreciatedDisplay) ==
  LET messages_module == Member(depreciatedDisplay, "messages_module")
  IN  IF messages_module = <<>> THEN twake.chat
      ELSE <<[input |->
                IF messages_module[1].in_plus \/ messages_module[1].right_icon
                THEN <<[icon |-> application.identity.icon]>> ELSE <<>>,
              commands |-> messages_module[1].commands,
              actions |->
                IF messages_module[1].action # <<>>
                THEN << <<[name |-> messages_module[1].action[1].description,
                           id |-> "default"]>> >>
                ELSE <<>>]>>

importDepreciatedDisplayFields(application, depreciatedDisplay) ==
  LET twake == displayToFill(application)
  IN  [twake |->
         [tab |-> tabOf(depreciatedDisplay),
          standalone |-> standaloneOf(depreciatedDisplay),
          configuration |-> <<configurationOf(twake, depreciatedDisplay)>>,
          direct |-> directOf(application, depreciatedDisplay),
          files |-> filesOf(twake, depreciatedDisplay),
          chat |-> chatOf(application, twake, depreciatedDisplay)]]

\* --------------------------------------------------- importDepreciatedFields

\* v || []
orEmptyArray(v) == IF Truthy(v) THEN v ELSE JArray(<<>>)

\* s.toLocaleLowerCase() on the names used here
toLocaleLowerCase(s) ==
  CASE s = "Foo" -> "foo"
    [] s = "Bar" -> "bar"
    [] OTHER -> s

\* One try block around the three parses: a text that is not JSON empties
\* every target.
importAccess_oneTry(application) ==
  LET capabilities == JSONparse(orEmptyList(application.depreciated_capabilities))
      privileges == JSONparse(orEmptyList(application.depreciated_privileges))
      hooks == JSONparse(orEmptyList(application.depreciated_hooks))
      threw == capabilities = <<>> \/ privileges = <<>> \/ hooks = <<>>
  IN  [write |-> IF threw THEN JArray(<<>>) ELSE orEmptyArray(capabilities[1]),
       delete |-> IF threw THEN JArray(<<>>) ELSE orEmptyArray(capabilities[1]),
       read |-> IF threw THEN JArray(<<>>) ELSE orEmptyArray(privileges[1]),
       hooks |-> IF threw THEN JArray(<<>>) ELSE orEmptyArray(hooks[1])]

\* newApplication.access: write and delete parsed from depreciated_capabilities
\* in one try block, read from depreciated_privileges and hooks from
\* depreciated_hooks in a try block each; a block that throws leaves [].
importAccess(application) ==
  LET capabilities == JSONparse(orEmptyList(application.depreciated_capabilities))
      privileges == JSONparse(orEmptyList(application.depreciated_privileges))
      hooks == JSONparse(orEmptyList(application.depreciated_hooks))
  IN  [write |-> IF capabilities = <<>> THEN JArray(<<>>)
                 ELSE orEmptyArray(capabilities[1]),
       delete |-> IF capabilities = <<>> THEN JArray(<<>>)
                  ELSE orEmptyArray(capabilities[1]),
       read |-> IF privileges = <<>> THEN JArray(<<>>)
                ELSE orEmptyArray(privileges[1]),
       hooks |-> IF hooks = <<>> THEN JArray(<<>>) ELSE orEmptyArray(hooks[1])]

\* newApplication.identity
importIdentity(application) ==
  [code |-> IF application.depreciated_simple_name # ""
            THEN application.depreciated_simple_name
            ELSE toLocaleLowerCase(application.depreciated_name),
   name |-> application.depreciated_name,
   icon |-> application.depreciated_icon_url,
   description |-> application.depreciated_description,
   website |-> "http://twake.app/",
   categories |-> <<>>,
   compatibility |-> <<"twake">>]

\* The identity carries the time of the import.
importedFields_datedIdentity(application, now1, now2) ==
  [id |-> application.id,
   company_id |-> application.group_id,
   is_default |-> application.is_default,
   identity |-> [importIdentity(application) EXCEPT !.description = <<@, now1>>],
   publication |->
     [published |-> application.depreciated_is_available_to_public,
      requested |-> application.depreciated_public
                    /\ ~application.depreciated_twake_team_validation],
   stats |-> [created_at |-> now1, updated_at |-> now2, version |-> 1],
   api |-> [hooks_url |-> application.depreciated_api_events_url,
            allowed_ips |-> application.depreciated_api_allowed_ip,
            private_key |-> application.depreciated_api_private_key],
   access |-> importAccess(application),
   display |-> <<>>]

\* new Application() with everything set but its display: now1 and now2 are
\* the two readings of Date.now().
importedFields(application, now1, now2) ==
  [id |-> application.id,
   company_id |-> application.group_id,
   is_default |-> application.is_default,
   identity |-> importIdentity(application),
   publication |->
     [published |-> application.depreciated_is_available_to_public,
      requested |-> application.depreciated_public
                    /\ ~application.depreciated_twake_team_validation],
   stats |-> [created_at |-> now1, updated_at |-> now2, version |-> 1],
   api |-> [hooks_url |-> application.depreciated_api_events_url,
            allowed_ips |-> application.depreciated_api_allowed_ip,
            private_key |-> application.depreciated_api_private_key],
   access |-> importAccess(application),
   display |-> <<>>]

\* importDepreciatedFields(application): <<newApplication>>, or <<>> when
\* JSON.parse of the display configuration throws.
importDepreciatedFields(application, now1, now2) ==
  LET newApplication == importedFields(application, now1, now2)
      depreciatedDisplay == JSONparse(application.depreciated_display_configuration)
  IN  IF depreciatedDisplay = <<>> THEN <<>>
      ELSE <<[newApplication EXCEPT
                !.display = importDepreciatedDisplayFields(newApplication,
                                                           depreciatedDisplay[1])]>>

\* ------------------------------------------------- the importer on its inputs

\* A PhpApplication with nothing set but its names.
PlainPhpApplication ==
  [id |-> "a1", group_id |-> "c1", is_default |-> FALSE,
   depreciated_simple_name |-> "", depreciated_name |-> "Foo",
   depreciated_icon_url |-> "icon", depreciated_description |-> "",
   depreciated_is_available_to_public |-> FALSE, depreciated_public |-> FALSE,
   depreciated_twake_team_validation |-> FALSE,
   depreciated_api_events_url |-> "", depreciated_api_allowed_ip |-> "",
   depreciated_api_private_key |-> LegacyKey,
   depreciated_capabilities |-> NullText, depreciated_privileges |-> NullText,
   depreciated_hooks |-> NullText,
   depreciated_display_configuration |-> JSONstringify(NoDisplayConfiguration)]

\* The display columns a legacy record may carry.
DisplayTexts ==
  {NullText, EmptyText, Malformed} \cup
  { JSONstringify(d) : d \in DisplayConfigurations }

\* The legacy records the importer is applied to: every combination of the
\* three capability columns with a display column that parses or does not,
\* every display column, and every combination of the flags and names.
PhpApplications ==
  { [PlainPhpApplication EXCEPT
       !.depreciated_capabilities = c, !.depreciated_privileges = p,
       !.depreciated_hooks = h, !.depreciated_display_configuration = d] :
    c \in CapabilityTexts, p \in CapabilityTexts, h \in CapabilityTexts,
    d \in {NullText, Malformed, JSONstringify(NoDisplayConfiguration)} }
  \cup
  { [PlainPhpApplication EXCEPT !.depreciated_display_configuration = d] :
    d \in DisplayTexts }
  \cup
  { [PlainPhpApplication EXCEPT
       !.is_default = dflt, !.depreciated_simple_name = code,
       !.depreciated_is_available_to_public = pub, !.depreciated_public = req,
       !.depreciated_twake_team_validation = val] :
    dflt \in BOOLEAN, code \in {"", "foo_app"}, pub \in BOOLEAN,
    req \in BOOLEAN, val \in BOOLEAN }

\* application.display as importDepreciatedDisplayFields may find it: absent,
\* without a twake member, or with one that is empty or filled before.
FilledTwake ==
  [EmptyTwake EXCEPT
     !.configuration = << <<"channel", "global">> >>,
     !.files = <<[editor |-> [preview_url |-> <<>>, edition_url |-> <<>>,
                              extensions |-> <<"odt">>, empty_files |-> <<>>],
                  actions |-> <<>>]>>,
     !.chat = <<[input |-> <<>>, commands |-> <<>>, actions |-> <<>>]>>]

ExistingDisplays ==
  { <<>>, <<[twake |-> <<>>]>>, <<[twake |-> <<EmptyTwake>>]>>,
    <<[twake |-> <<FilledTwake>>]>> }

\* imp: the legacy record drawn, then what was applied to it ("imported":
\* importDepreciatedFields, "filled": importDepreciatedDisplayFields on an
\* application whose display is `existing`) and the result.
ImportInit ==
  /\ \E application \in PhpApplications :
       imp = [application |-> application, step |-> "drawn", existing |-> <<>>,
              result |-> <<>>, filled |-> <<>>]
  /\ store = <<>> /\ keyCtr = 0 /\ last = NoRequest /\ hist = <<>>
  /\ mig = Unused /\ reg = Unused /\ ev = Unused /\ race = Unused /\ hook = Unused

importFields ==
  /\ imp.step = "drawn"
  /\ \E now1 \in Times, now2 \in Times :
       /\ now1 <= now2
       /\ imp' = [imp EXCEPT
                    !.step = "imported",
                    !.result = importDepreciatedFields(imp.application, now1, now2)]
  /\ UNCHANGED <<vars, mig, reg, ev, race, hook>>

fillDisplay ==
  /\ imp.step = "drawn"
  /\ JSONparse(imp.application.depreciated_display_configuration) # <<>>
  /\ \E existing \in ExistingDisplays :
       imp' = [imp EXCEPT
                 !.step = "filled",
                 !.existing = existing,
                 !.filled =
                   <<importDepreciatedDisplayFields(
                       [identity |-> importIdentity(imp.application),
                        display |-> existing],
                       JSONparse(imp.application.depreciated_display_configuration)[1])>>]
  /\ UNCHANGED <<vars, mig, reg, ev, race, hook>>

allVars == <<store, keyCtr, last, hist, imp, mig, reg, ev, race, hook>>

ImportNext == importFields \/ fillDisplay

SpecImport == ImportInit /\ [][ImportNext]_allVars

\* ----------------------------------------------------- claims on the importer

\* What one capability column stands for by itself: the value of its JSON text
\* when that is truthy, the empty list otherwise.
OwnValue(text) ==
  IF text.kind = "json" /\ Truthy(text.value) THEN text.value ELSE JArray(<<>>)

\* C16: the three capability columns are parsed independently: the import
\* fails only when the display column does not parse, whatever the capability
\* columns hold, and each target (write and delete together, read, hooks) is
\* derived from its own column alone, the empty list when that column is
\* malformed or absent.
C16_CapabilitiesIndependent ==
  imp # Unused /\ imp.step = "imported" =>
    LET application == imp.application
    IN  /\ (imp.result = <<>>) <=>
             (JSONparse(application.depreciated_display_configuration) = <<>>)
        /\ imp.result # <<>> =>
             /\ imp.result[1].access.write = OwnValue(application.depreciated_capabilities)
             /\ imp.result[1].access.delete = OwnValue(application.depreciated_capabilities)
             /\ imp.result[1].access.read = OwnValue(application.depreciated_privileges)
             /\ imp.result[1].access.hooks = OwnValue(application.depreciated_hooks)

\* C16's case: a record whose capabilities column is malformed and whose hooks
\* column is absent has been imported; write, delete and hooks are empty and
\* read is the list its privileges column holds.
C16_Witness ==
  /\ imp # Unused /\ imp.step = "imported" /\ imp.result # <<>>
  /\ imp.application.depreciated_capabilities = Malformed
  /\ imp.application.depreciated_hooks = NullText
  /\ imp.application.depreciated_privileges = JSONstringify(JArray(<<"files">>))
  /\ imp.result[1].access.write = JArray(<<>>)
  /\ imp.result[1].access.delete = JArray(<<>>)
  /\ imp.result[1].access.hooks = JArray(<<>>)
  /\ imp.result[1].access.read = JArray(<<"files">>)

\* The list C18 expects for a legacy display configuration.
ExpectedConfiguration(depreciatedDisplay) ==
  LET configuration == Member(depreciatedDisplay, "configuration")
      workspace == configuration # <<>> /\ configuration[1].can_configure_in_workspace
      channel == configuration # <<>> /\ configuration[1].can_configure_in_channel
  IN  (IF workspace THEN <<"global">> ELSE <<>>) \o
      (IF channel THEN <<"channel">> ELSE <<>>)

\* C18: display.twake.configuration is exactly "global" when the workspace may
\* configure followed by "channel" when a channel may, and nothing else, both
\* in a whole import and when the display filled already held a list.
C18_ConfigurationList ==
  /\ imp # Unused /\ imp.step = "imported" /\ imp.result # <<>> =>
       imp.result[1].display.twake.configuration =
         <<ExpectedConfiguration(
             JSONparse(imp.application.depreciated_display_configuration)[1])>>
  /\ imp # Unused /\ imp.step = "filled" =>
       imp.filled[1].twake.configuration =
         <<ExpectedConfiguration(
             JSONparse(imp.application.depreciated_display_configuration)[1])>>

\* C18's case: a display that held the list "channel", "global" has been
\* filled from a legacy display allowing both, and holds "global", "channel".
C18_Witness ==
  /\ imp # Unused /\ imp.step = "filled"
  /\ imp.existing = <<[twake |-> <<FilledTwake>>]>>
  /\ imp.filled[1].twake.configuration = << <<"global", "channel">> >>


\* ================================================================= migrate

MaxLegacy == 3     \* legacy records
MaxPages == 2      \* pages the legacy repository answers them in

\* The id of the n-th legacy record.
LegacyId(n) ==
  CASE n = 1 -> "a1" [] n = 2 -> "a2" [] n = 3 -> "a3" [] n = 4 -> "a4"
    [] OTHER -> "a5"

\* A legacy display configuration with most of its members set.
RichDisplayConfiguration ==
  [type |-> "object",
   channel_tab |-> <<[iframe |-> <<"https://tab">>]>>, app |-> <<>>,
   configuration |-> <<[can_configure_in_workspace |-> TRUE,
                        can_configure_in_channel |-> TRUE]>>,
   member_app |-> TRUE, drive_module |-> <<>>,
   messages_module |-> <<[in_plus |-> TRUE, right_icon |-> FALSE,
                          commands |-> <<>>, action |-> <<>>]>>]

\* The n-th legacy record: the odd ones public, with capabilities and a rich
\* display, the even ones plain; badDisplay makes its display column malformed.
PhpApplicationAt(n, badDisplay) ==
  LET plain == [PlainPhpApplication EXCEPT !.id = LegacyId(n)]
      rich == [plain EXCEPT
                 !.depreciated_name = "Bar",
                 !.depreciated_is_available_to_public = TRUE,
                 !.depreciated_public = TRUE,
                 !.depreciated_capabilities = JSONstringify(JArray(<<"files">>)),
                 !.depreciated_hooks = Malformed,
                 !.depreciated_display_configuration =
                    JSONstringify(RichDisplayConfiguration)]
      application == IF n % 2 = 1 THEN rich ELSE plain
  IN  IF badDisplay
      THEN [application EXCEPT !.depreciated_display_configuration = Malformed]
      ELSE application

\* The legacy repository's pages over n records: up to MaxPages consecutive
\* pages, some possibly empty, cut[i] being the last record of page i.
LegacyPages(n, bad) ==
  LET Cuts(p) ==
        { cut \in [0..p -> 0..n] :
            cut[0] = 0 /\ cut[p] = n /\ \A i \in 1..p : cut[i-1] <= cut[i] }
  IN  UNION { { [i \in 1..p |->
                   [j \in 1..(cut[i] - cut[i-1]) |->
                      PhpApplicationAt(cut[i-1] + j, cut[i-1] + j = bad)]] :
                cut \in Cuts(p) } :
              p \in 1..MaxPages }

\* phpRepository.find({}, {pagination: page}): the page the token names, the
\* first one without a token (0), and the token of the page after it, none (0)
\* after the last page.
find(pages, page_token) ==
  LET i == IF page_token = 0 THEN 1 ELSE page_token
  IN  [entities |-> pages[i],
       nextPage |-> [page_token |-> IF i < Len(pages) THEN i + 1 ELSE 0]]

\* repository.findOne({id})
findOne(st, id) == StoreGet(st, id)

\* The records of all pages, in the order of the pages.
RECURSIVE Flatten(_)
Flatten(pages) == IF pages = <<>> THEN <<>> ELSE Head(pages) \o Flatten(Tail(pages))

\* The stores a migrate request may find: empty, or holding under the first
\* legacy id a record created here, published and updated since, alone or
\* next to a record the legacy repository does not have, or withdrawn since.
PublishedAndUpdated ==
  [CreatedAndPublished EXCEPT !.stats = [created_at |-> 0, updated_at |-> 0,
                                         version |-> MaxVersion]]

\* The same record after its publication request was withdrawn.
Withdrawn ==
  [PublishedAndUpdated EXCEPT !.publication = [published |-> FALSE,
                                               requested |-> FALSE]]

PreStores ==
  { <<>>,
    [i \in {"a1"} |-> PublishedAndUpdated],
    [i \in {"a1"} |-> Withdrawn],
    [i \in {"a0", "a1"} |->
       IF i = "a1" THEN PublishedAndUpdated
       ELSE [PublishedAndUpdated EXCEPT !.id = "a0"]] }

\* mig: the legacy pages; the id whose save fails ("" for none); the handler's
\* position (pc), cursor (page), records of the fetched page still to handle
\* (current) and answer so far (entities); the readings of Date.now() so far
\* (clock); and, to state the claims, the number of requests (run), the clock
\* when this one began (started), the pages
\* fetched, the ids imported and saved and the import times in this run, the
\* store when this run began (before) and when the run before it completed
\* (previous, <<>> when there is none).
MigrateInit ==
  /\ \E n \in 0..MaxLegacy, bad \in 0..MaxLegacy, failing \in 0..MaxLegacy :
       /\ bad <= n /\ failing <= n /\ (bad = 0 \/ failing = 0)
       /\ \E pages \in LegacyPages(n, bad) :
            mig = [pages |-> pages,
                   failing |-> IF failing = 0 THEN "" ELSE LegacyId(failing),
                   pc |-> "idle", page |-> 0, current |-> <<>>, entities |-> <<>>,
                   clock |-> 0, started |-> 0, run |-> 0, fetched |-> <<>>, imported |-> <<>>,
                   saved |-> <<>>, times |-> <<>>, before |-> <<>>,
                   previous |-> <<>>]
  /\ store \in PreStores
  /\ keyCtr = 0 /\ last = NoRequest /\ hist = <<>>
  /\ imp = Unused /\ reg = Unused /\ ev = Unused /\ race = Unused /\ hook = Unused

\* migrate is called, a first time and a second time: page = {limitStr: "100"},
\* entities = [].
migrateStart ==
  /\ mig.pc \in {"idle", "done", "failed"}
  /\ mig.run < 2
  /\ mig' = [mig EXCEPT
               !.pc = "fetch", !.page = 0, !.current = <<>>, !.entities = <<>>,
               !.run = @ + 1, !.started = mig.clock, !.fetched = <<>>, !.imported = <<>>, !.saved = <<>>,
               !.times = <<>>, !.before = store,
               !.previous = IF mig.pc = "done" THEN <<store>> ELSE <<>>]
  /\ UNCHANGED <<vars, imp, reg, ev, race, hook>>

\* The top of the do loop: the next page is fetched and the cursor advanced.
fetchPage ==
  /\ mig.pc = "fetch"
  /\ LET applicationListResult == find(mig.pages, mig.page)
     IN  mig' = [mig EXCEPT
                   !.pc = "records",
                   !.fetched = Append(@, IF mig.page = 0 THEN 1 ELSE mig.page),
                   !.page = applicationListResult.nextPage.page_token,
                   !.current = applicationListResult.entities]
  /\ UNCHANGED <<vars, imp, reg, ev, race, hook>>

\* The readings of Date.now() during migrate requests: an early and a late one.
MigrateTimes == {0, MaxTime}

\* let replaceExisting = true
replaceExisting == TRUE

\* A record already stored is left as it is.
mustImport_keepsExisting(found) == found = <<>>

\* !(await repository.findOne({id})) || replaceExisting
mustImport(found) == found = <<>> \/ replaceExisting

\* A record that throws is skipped and the loop goes on.
afterRecord_isolated(threw) == "records"

\* An exception thrown for a record leaves both loops; the catch logs it and
\* throws it again.
afterRecord(threw) == IF threw THEN "failed" ELSE "records"

\* The loop ends with the first page.
morePages_never(page) == FALSE

\* while (page.page_token)
morePages(page) == page.page_token # 0

\* One turn of the for loop: the record is looked up, imported, saved and its
\* stored entity pushed; importDepreciatedFields or save may throw.
migrateRecord ==
  /\ mig.pc = "records" /\ mig.current # <<>>
  /\ LET application == Head(mig.current)
     IN  IF ~mustImport(findOne(store, application.id))
         THEN /\ mig' = [mig EXCEPT !.current = Tail(@)]
              /\ UNCHANGED store
         ELSE \E now1 \in MigrateTimes, now2 \in MigrateTimes :
                /\ mig.clock <= now1 /\ now1 <= now2
                /\ LET newApplication == importDepreciatedFields(application, now1, now2)
                       saveThrows == application.id = mig.failing
                       threw == newApplication = <<>> \/ saveThrows
                       saved == StoreSave(store, newApplication[1])
                   IN  /\ store' = IF threw THEN store ELSE saved
                       /\ mig' = [mig EXCEPT
                                    !.pc = afterRecord(threw),
                                    !.current = Tail(@),
                                    !.clock = now2,
                                    !.imported = Append(@, application.id),
                                    !.saved = IF threw THEN @
                                              ELSE Append(@, application.id),
                                    !.entities = IF threw THEN @
                                                 ELSE Append(@, saved[application.id]),
                                    !.times = IF threw THEN @
                                              ELSE [i \in DOMAIN @ \cup {application.id} |->
                                                      IF i = application.id
                                                      THEN <<now1, now2>> ELSE @[i]]]
  /\ UNCHANGED <<keyCtr, last, hist, imp, reg, ev, race, hook>>

\* The end of the for loop: the do loop goes on while the cursor has a token,
\* and the handler returns the entities when it has none.
endOfPage ==
  /\ mig.pc = "records" /\ mig.current = <<>>
  /\ mig' = [mig EXCEPT !.pc = IF morePages([page_token |-> mig.page])
                               THEN "fetch" ELSE "done"]
  /\ UNCHANGED <<vars, imp, reg, ev, race, hook>>

MigrateNext == migrateStart \/ fetchPage \/ migrateRecord \/ endOfPage

SpecMigrate == MigrateInit /\ [][MigrateNext]_allVars

\* A migrate request into an empty store.
MigrateEmptyInit == MigrateInit /\ store = <<>>

\* The handler's awaits resolve: a migrate request under way takes its next step.
SpecMigrateFair ==
  /\ MigrateEmptyInit
  /\ [][MigrateNext]_allVars
  /\ WF_allVars(fetchPage \/ migrateRecord \/ endOfPage)

\* ------------------------------------------------------- claims on migrate

\* The legacy records in the order of the pages, and their ids.
LegacyRecords == Flatten(mig.pages)
LegacyIds == [i \in 1..Len(LegacyRecords) |-> LegacyRecords[i].id]

\* The position of the legacy record that fails, 0 when none does: the one
\* whose display column does not parse or whose save throws.
FailingRecord ==
  LET failing == { i \in 1..Len(LegacyRecords) :
                     \/ JSONparse(LegacyRecords[i].depreciated_display_configuration) = <<>>
                     \/ LegacyRecords[i].id = mig.failing }
  IN  IF failing = {} THEN 0 ELSE CHOOSE i \in failing : \A j \in failing : i <= j

IsPrefix(s, t) == Len(s) <= Len(t) /\ s = SubSeq(t, 1, Len(s))

\* C12: with no failing record a migrate request under way completes, and it
\* has then fetched each page once, in the order of the cursor, and saved and
\* returned one entity per legacy record.
C12_MigrateDrainsPages ==
  /\ [](mig # Unused /\ FailingRecord = 0 =>
          /\ IsPrefix(mig.fetched, [i \in 1..Len(mig.pages) |-> i])
          /\ mig.pc = "done" =>
               /\ mig.fetched = [i \in 1..Len(mig.pages) |-> i]
               /\ mig.saved = LegacyIds
               /\ [i \in 1..Len(mig.entities) |-> mig.entities[i].id] = LegacyIds)
  /\ (mig # Unused /\ FailingRecord = 0 /\ mig.pc \in {"fetch", "records"})
       ~> (mig.pc = "done")

\* C12's case: a migrate request over two pages, neither empty, has completed.
C12_Witness ==
  /\ mig # Unused /\ mig.pc = "done" /\ Len(mig.pages) >= 2
  /\ \A i \in 1..Len(mig.pages) : mig.pages[i] # <<>>
  /\ Len(mig.entities) = Len(LegacyRecords)

\* C13: a migrate request over a failing record never completes and never
\* imports a record after it nor saves it or a record after it; when the
\* error has reached the caller, the records before it are stored as imported
\* and every record from it on is as the store held it before the request.
C13_FailureAbortsMigration ==
  mig # Unused /\ FailingRecord # 0 =>
    /\ mig.pc # "done"
    /\ IsPrefix(mig.imported, SubSeq(LegacyIds, 1, FailingRecord))
    /\ IsPrefix(mig.saved, SubSeq(LegacyIds, 1, FailingRecord - 1))
    /\ mig.pc = "failed" =>
         /\ mig.imported = SubSeq(LegacyIds, 1, FailingRecord)
         /\ mig.saved = SubSeq(LegacyIds, 1, FailingRecord - 1)
         /\ \A i \in 1..(FailingRecord - 1) :
              /\ LegacyIds[i] \in DOMAIN store
              /\ <<store[LegacyIds[i]]>> =
                   importDepreciatedFields(LegacyRecords[i],
                                           mig.times[LegacyIds[i]][1],
                                           mig.times[LegacyIds[i]][2])
         /\ \A i \in FailingRecord..Len(LegacyIds) :
              StoreGet(store, LegacyIds[i]) = StoreGet(mig.before, LegacyIds[i])

\* C13's case: a migrate request has failed after saving a record, at a
\* record that is not the last one and before the last page was fetched.
C13_Witness ==
  /\ mig # Unused /\ mig.pc = "failed" /\ mig.saved # <<>>
  /\ Len(mig.imported) < Len(LegacyRecords)
  /\ Len(mig.fetched) < Len(mig.pages)

\* C14: when a migrate request has completed, every legacy id is stored as the
\* importer's output for its legacy record at readings of the clock taken
\* during the request, whatever the store held under that id before: the
\* publication is the legacy one, the version 1 and created_at a time of the run.
C14_MigrateOverwrites ==
  mig # Unused /\ mig.pc = "done" =>
    \A i \in 1..Len(LegacyRecords) :
      LET id == LegacyIds[i]
      IN  /\ id \in DOMAIN store /\ id \in DOMAIN mig.times
          /\ mig.started <= mig.times[id][1] /\ mig.times[id][2] <= mig.clock
          /\ <<store[id]>> =
               importDepreciatedFields(LegacyRecords[i], mig.times[id][1],
                                       mig.times[id][2])
          /\ store[id].stats.version = 1
          /\ store[id].stats.created_at = mig.times[id][1]
          /\ store[id].publication.published =
               LegacyRecords[i].depreciated_is_available_to_public

\* C14's case: the first migrate request has completed over a store that held
\* a published record at its second version under a legacy id, and the record
\* is now at version 1 with the legacy record's name.
C14_Witness ==
  /\ mig # Unused /\ mig.pc = "done" /\ mig.run = 1
  /\ "a1" \in DOMAIN mig.before
  /\ mig.before["a1"].publication.published
  /\ mig.before["a1"].stats.version > 1
  /\ store["a1"].stats.version = 1
  /\ store["a1"].identity.name = LegacyRecords[1].depreciated_name

\* C15: when a migrate request completes after another one that completed,
\* every legacy id has the identity, access and display it had after the first.
C15_MigrateTwice ==
  mig # Unused /\ mig.pc = "done" /\ mig.previous # <<>> =>
    \A i \in 1..Len(LegacyRecords) :
      LET id == LegacyIds[i]
      IN  /\ id \in DOMAIN store /\ id \in DOMAIN mig.previous[1]
          /\ store[id].identity = mig.previous[1][id].identity
          /\ store[id].access = mig.previous[1][id].access
          /\ store[id].display = mig.previous[1][id].display

\* C15's case: a second migrate request has completed over two records or
\* more, at a later time than the first.
C15_Witness ==
  /\ mig # Unused /\ mig.pc = "done" /\ mig.previous # <<>>
  /\ Len(LegacyRecords) >= 2
  /\ store["a1"].stats.created_at # mig.previous[1]["a1"].stats.created_at


\* ====================================================== the plugin registrar

MaxPosts == 2      \* posts the registrar receives

\* The bodies save is called with here: new drafts that differ in the
\* repository of their identity, their access and their publication request.
RegistrarBodies ==
  { app \in Bodies({NoKey}) :
      /\ ~app.is_default
      /\ app.api.hooks_url = DetailsA.hooks_url
      /\ app.display = DetailsA.display }

\* reg: the posts of save to the registrar, in the order they were made, each
\* with what became of it: axios.post threw at once ("threw"), it was sent and
\* is unanswered ("pending"), answered ("ok") or refused or lost ("failed").
RegistrarInit ==
  /\ reg = <<>>
  /\ last = NoRequest
  /\ \/ /\ store = << >>
        /\ hist = << >>
        /\ keyCtr = 0
     \/ \E rec \in InitRecords :
          /\ store = [i \in {rec.id} |-> rec]
          /\ hist = [i \in {rec.id} |-> HistInit(rec, "migrate")]
          /\ keyCtr = 0
  /\ imp = Unused /\ mig = Unused /\ ev = Unused /\ race = Unused /\ hook = Unused

\* save up to its return: the post is made after the store's save and is not
\* awaited; an exception of axios.post itself is caught and logged.
saveAndSync ==
  /\ \E id \in ParamIds \cup {""}, app \in RegistrarBodies, now \in Times :
       IF id # "" THEN saveUpdate(id, app, now) ELSE saveInsert(app, now)
  /\ Len(reg) + Len(last'.posts) <= MaxPosts
  /\ \E sent \in {"pending", "threw"} :
       reg' = reg \o [i \in 1..Len(last'.posts) |->
                        [post |-> last'.posts[i], answer |-> sent]]
  /\ UNCHANGED <<imp, mig, ev, race, hook>>

\* The registrar answers a post, or the post fails: the then and catch
\* callbacks log the response or the error.
registrarAnswers ==
  /\ \E i \in 1..Len(reg), answer \in {"ok", "failed"} :
       /\ reg[i].answer = "pending"
       /\ reg' = [reg EXCEPT ![i].answer = answer]
  /\ UNCHANGED <<vars, imp, mig, ev, race, hook>>

RegistrarNext == saveAndSync \/ registrarAnswers

SpecRegistrar == RegistrarInit /\ [][RegistrarNext]_allVars

\* ------------------------------------------------- claim on the registrar

\* C11: a post reaches the registrar only in a step of save that answered ok,
\* saved the record and was asked with a repository, and it names the record
\* as stored and returned; a save without repository or refused posts
\* nothing; and what becomes of a post (thrown at once, unanswered, answered,
\* failed) changes neither the store nor the answer of the request.
C11_RegistrarIndependent ==
  [][ /\ Len(reg') > Len(reg) =>
           /\ last'.status = "ok" /\ last'.saved
           /\ last'.app[1].identity.repository # ""
           /\ Len(reg') = Len(reg) + 1
           /\ LET post == reg'[Len(reg')].post
              IN  /\ post.pluginId \in DOMAIN store'
                  /\ last'.resource = <<store'[post.pluginId]>>
                  /\ post.pluginSecret = store'[post.pluginId].api.private_key
                  /\ post.gitRepo = last'.app[1].identity.repository
      /\ (vars' # vars /\ last'.status = "ok") =>
           /\ last'.resource # <<>>
           /\ last'.resource[1].id \in DOMAIN store'
           /\ last'.resource = <<store'[last'.resource[1].id]>>
           /\ (last'.app[1].identity.repository = "") => reg' = reg
      /\ (vars' # vars /\ last'.status # "ok") => reg' = reg /\ store' = store
      /\ (Len(reg') = Len(reg) /\ reg' # reg) => vars' = vars ]_allVars

\* C11's case: one post has failed, a later one has not been answered, and the
\* store holds the record the last save returned.
C11_Witness ==
  /\ reg # Unused /\ Len(reg) = 2
  /\ reg[1].answer = "failed" /\ reg[2].answer = "pending"
  /\ last.status = "ok" /\ last.resource = <<store[reg[2].post.pluginId]>>


\* =================================================================== event

MaxEvents == 2     \* notifications the dispatcher receives

\* The companies a request may name.
Companies == {"c1", "c2"}

\* gr.services.companies.getCompanyUser({id: company}, {id: user}): an async
\* function; what its promise resolves to, the caller's membership or nothing.
getCompanyUser(members, company_id) ==
  IF members[company_id] = "none" THEN <<>> ELSE <<[role |-> members[company_id]]>>

\* The value of a call to an async function that is not awaited.
Promise(resolution) == [type |-> "promise", resolution |-> resolution]

\* The value of an awaited call.
Awaited(resolution) == [type |-> "value", resolution |-> resolution]

\* !x: a promise is an object and never falsy; an awaited value is falsy when
\* it is nothing.
Not(x) == x.type = "value" /\ x.resolution = <<>>

\* companyApps.get({company_id, application_id}): the installation, or nothing.
companyAppsGet(installed, company_id, application_id) ==
  IF company_id \in installed
  THEN <<[company_id |-> company_id, application_id |-> application_id]>>
  ELSE <<>>

\* event: the error thrown, or "ok".  getCompanyUser is called without await.
eventStatus(st, members, installed, company_id, application_id) ==
  LET applicationEntity == Awaited(StoreGet(st, application_id))
      companyUser == Promise(getCompanyUser(members, company_id))
      applicationInCompany ==
        Awaited(companyAppsGet(installed, company_id, application_id))
  IN  IF Not(applicationEntity) THEN "NotFound"
      ELSE IF Not(companyUser) THEN "BadRequest"
      ELSE IF Not(applicationInCompany) THEN "BadRequest"
      ELSE "ok"

\* ev: the caller's membership in each company, the companies the application
\* is installed in, the number of calls of hooks.notifyApp, and the last event
\* request with its answer.
EventInit ==
  /\ \E members \in [Companies -> Memberships], installed \in SUBSET Companies :
       ev = [members |-> members, installed |-> installed, notified |-> 0,
             last |-> [company_id |-> "", application_id |-> "", status |-> "none",
                       notifyApp |-> FALSE]]
  /\ \/ store = <<>>
     \/ \E rec \in InitRecords : store = [i \in {rec.id} |-> rec]
  /\ keyCtr = 0 /\ last = NoRequest /\ hist = <<>>
  /\ imp = Unused /\ mig = Unused /\ reg = Unused /\ race = Unused /\ hook = Unused

event ==
  /\ ev.notified < MaxEvents
  /\ \E company_id \in Companies, application_id \in ParamIds :
       LET status == eventStatus(store, ev.members, ev.installed, company_id,
                                 application_id)
       IN  ev' = [ev EXCEPT
                    !.notified = IF status = "ok" THEN @ + 1 ELSE @,
                    !.last = [company_id |-> company_id,
                              application_id |-> application_id,
                              status |-> status, notifyApp |-> status = "ok"]]
  /\ UNCHANGED <<vars, imp, mig, reg, race, hook>>

EventNext == event

SpecEvent == EventInit /\ [][EventNext]_allVars

\* ---------------------------------------------------------- claim on event

\* C17: an event request calls the dispatcher only when the caller is a member
\* of the company it names and the application is installed there; for an
\* application that exists, a caller without membership in that company or a
\* company without the installation is answered BadRequest and nothing is
\* dispatched.
C17_EventDispatch ==
  [][ ev' # ev =>
        LET member == ev.members[ev'.last.company_id] # "none"
            installed == ev'.last.company_id \in ev.installed
        IN  /\ ev'.last.notifyApp => member /\ installed
            /\ ev'.notified # ev.notified => member /\ installed
            /\ (ev'.last.application_id \in DOMAIN store /\ ~(member /\ installed)) =>
                 /\ ev'.last.status = "BadRequest"
                 /\ ev'.notified = ev.notified ]_allVars


\* ================================================= two updates of one record

\* The two requests.
Requests == {1, 2}

\* The bodies of the two requests: the details of a new draft or all the
\* other details, with the publication request kept or withdrawn.
RaceBodies ==
  { app \in Bodies({NoKey}) :
      /\ ~app.is_default
      /\ pick(app) \in {pick([app EXCEPT !.identity = DetailsA.identity,
                                         !.api.hooks_url = DetailsA.hooks_url,
                                         !.api.allowed_ips = DetailsA.allowed_ips,
                                         !.access = DetailsA.access,
                                         !.display = DetailsA.display]),
                        pick([app EXCEPT !.identity = DetailsB.identity,
                                         !.api.hooks_url = DetailsB.hooks_url,
                                         !.api.allowed_ips = DetailsB.allowed_ips,
                                         !.access = DetailsB.access,
                                         !.display = DetailsB.display])} }

\* The save of the version the store holds by now, not of the one read.
saveEntity_onStoredVersion(st, entity) ==
  StoreSave(st, [entity EXCEPT !.stats.version = st[entity.id].stats.version + 1])

\* const res = await marketplaceApps.save(entity); entity = res.entity
saveEntity(st, entity) == StoreSave(st, entity)

\* race: the id both requests name and the record stored under it at first;
\* for each request its body, its position (pc: "called", "modified" after the
\* awaited get and the changes to the entity, "returned" after the awaited
\* save, "thrown"), the entity it holds and its answer; and the requests in
\* the order of their saves.
RaceInit ==
  /\ \E rec \in InitRecords, app1 \in RaceBodies, app2 \in RaceBodies :
       /\ store = [i \in {rec.id} |-> rec]
       /\ race = [id |-> rec.id, initial |-> rec,
                  app |-> <<app1, app2>>,
                  pc |-> <<"called", "called">>,
                  entity |-> << <<>>, <<>> >>,
                  status |-> <<"none", "none">>,
                  resource |-> << <<>>, <<>> >>,
                  writers |-> <<>>]
  /\ keyCtr = 0 /\ last = NoRequest /\ hist = <<>>
  /\ imp = Unused /\ mig = Unused /\ reg = Unused /\ ev = Unused /\ hook = Unused

\* save of request r up to its second await: the entity is read, checked and
\* changed in the handler.
updateReads(r) ==
  /\ race.pc[r] = "called"
  /\ \E now \in Times :
       LET app == race.app[r]
           found == StoreGet(store, race.id)
           status == saveStatus(found, app)
       IN  race' = [race EXCEPT
                      !.pc[r] = IF status = "ok" THEN "modified" ELSE "thrown",
                      !.status[r] = status,
                      !.entity[r] =
                        IF status = "ok"
                        THEN <<applyUpdate(withdrawPublication(found[1], app), app, now)>>
                        ELSE <<>>]
  /\ UNCHANGED <<vars, imp, mig, reg, ev, hook>>

\* save of request r from its second await: the entity is saved and returned.
updateWrites(r) ==
  /\ race.pc[r] = "modified"
  /\ store' = saveEntity(store, race.entity[r][1])
  /\ race' = [race EXCEPT
                !.pc[r] = "returned",
                !.resource[r] = <<getApplicationObject(store'[race.id])>>,
                !.writers = Append(@, r)]
  /\ UNCHANGED <<keyCtr, last, hist, imp, mig, reg, ev, hook>>

RaceNext == \E r \in Requests : updateReads(r) \/ updateWrites(r)

SpecRace == RaceInit /\ [][RaceNext]_allVars

\* ------------------------------------------------ claim on the two updates

\* C19: when both updates have returned, the store holds the entity of the
\* one that saved last; if that one had read the record before the other
\* saved, the version is only the initial one plus 1 and the details are those
\* of its own request, the other's being lost; otherwise the version is the
\* initial one plus 2.
C19_LostUpdate ==
  race # Unused /\ race.pc = <<"returned", "returned">> =>
    LET second == race.writers[2]
        v0 == race.initial.stats.version
        stale == race.entity[second][1].stats.version = v0 + 1
    IN  /\ race.status = <<"ok", "ok">>
        /\ store[race.id] = race.entity[second][1]
        /\ stale =>
             /\ store[race.id].stats.version = v0 + 1
             /\ ~DetailsDiffer(store[race.id], race.app[second])
        /\ ~stale => store[race.id].stats.version = v0 + 2

\* C19's case: both updates have returned ok, the first answered with its own
\* identity, and the store holds the second one's identity at the initial
\* version plus 1.
C19_Witness ==
  /\ race # Unused /\ race.pc = <<"returned", "returned">>
  /\ race.status = <<"ok", "ok">>
  /\ LET first == race.writers[1]
         second == race.writers[2]
     IN  /\ race.app[first].identity # race.app[second].identity
         /\ race.resource[first][1].identity = race.app[first].identity
         /\ store[race.id].identity = race.app[second].identity
         /\ store[race.id].stats.version = race.initial.stats.version + 1


\* ========================================================= the search hook

MaxRequests == 3   \* calls of refresh

\* searchInput.query ("" for none) and searchInput.channelId ("" for none);
\* workspaceId narrows the request in the same way and is left out.
Queries == {"", "a", "b"}
ChannelIds == {"", "ch1", "ch2"}

\* What MessagesAPIClient.searchFile answers to a query under the options:
\* the files matching that query in that channel.
searchFile(query, opt) == [matching |-> query, channel_id |-> opt.channel_id]

\* hook: the search input of the last render, the module's currentQuery, the
\* searched and recent results (<<>> before the first), the loading flag, the
\* calls of refresh so far, each with the query and options it captured, and
\* the calls still awaiting their response.
HookInit ==
  /\ hook = [searchInput |-> [query |-> "", channelId |-> ""],
             currentQuery |-> "",
             searched |-> <<>>, recent |-> <<>>, loading |-> FALSE,
             requests |-> <<>>, awaiting |-> {}]
  /\ store = <<>> /\ keyCtr = 0 /\ last = NoRequest /\ hist = <<>>
  /\ imp = Unused /\ mig = Unused /\ reg = Unused /\ ev = Unused /\ race = Unused

\* refresh up to its await: currentQuery is set and the request sent.
refreshCalls(h) ==
  [h EXCEPT
     !.loading = TRUE,
     !.currentQuery = h.searchInput.query,
     !.requests = Append(@, [query |-> h.searchInput.query,
                             isRecent |-> h.searchInput.query = "",
                             opt |-> [channel_id |-> h.searchInput.channelId]]),
     !.awaiting = @ \cup {Len(h.requests) + 1}]

\* if (currentQuery !== query) return
staleResponse(h, request) == h.currentQuery # request.query

\* The query or the channel of the search input changes; the effect runs and
\* calls refresh.
inputChanges ==
  /\ Len(hook.requests) < MaxRequests
  /\ \E query \in Queries, channelId \in ChannelIds :
       /\ <<query, channelId>> # <<hook.searchInput.query, hook.searchInput.channelId>>
       /\ hook' = refreshCalls([hook EXCEPT
                                  !.searchInput = [query |-> query,
                                                   channelId |-> channelId]])
  /\ UNCHANGED <<vars, imp, mig, reg, ev, race>>

\* The effect of the first render, or a caller of the hook, calls refresh.
refresh ==
  /\ Len(hook.requests) < MaxRequests
  /\ hook' = refreshCalls(hook)
  /\ UNCHANGED <<vars, imp, mig, reg, ev, race>>

\* refresh from its await: the response of one of the requests arrives.
responseArrives ==
  /\ \E i \in hook.awaiting :
       LET request == hook.requests[i]
           update == searchFile(request.query, request.opt)
       IN  hook' =
             IF staleResponse(hook, request)
             THEN [hook EXCEPT !.awaiting = @ \ {i}]
             ELSE [hook EXCEPT
                     !.awaiting = @ \ {i},
                     !.searched = IF request.isRecent THEN @ ELSE <<update>>,
                     !.recent = IF request.isRecent THEN <<update>> ELSE @,
                     !.loading = FALSE]
  /\ UNCHANGED <<vars, imp, mig, reg, ev, race>>

HookNext == inputChanges \/ refresh \/ responseArrives

SpecSearch == HookInit /\ [][HookNext]_allVars

\* --------------------------------------------------- claim on the search hook

\* files: the searched results under a query, the recent ones without.
files == IF hook.searchInput.query # "" THEN hook.searched ELSE hook.recent

\* C20: the response of a request that is not the last one issued, and asks
\* for something else than the last one, never changes the results; and when
\* no request awaits its response, the results shown are those of the last
\* request issued.
C20_LatestRequestWins ==
  /\ [][ \A i \in hook.awaiting \ hook'.awaiting :
           ( /\ i # Len(hook.requests)
             /\ hook.requests[i] # hook.requests[Len(hook.requests)] )
           => /\ hook'.searched = hook.searched
              /\ hook'.recent = hook.recent ]_allVars
  /\ [](hook # Unused /\ hook.requests # <<>> /\ hook.awaiting = {} =>
          LET latest == hook.requests[Len(hook.requests)]
          IN  files = <<searchFile(latest.query, latest.opt)>>)

\* ------------------------------------------- more claims on the importer

\* The legacy display configuration of the record drawn, when it parses.
DrawnDisplay == JSONparse(imp.application.depreciated_display_configuration)[1]

\* What C21 expects for a binding: nothing when it is absent, the url object
\* when it has an iframe, the flag true when it has none.
ExpectedBinding(binding) ==
  IF binding = <<>> THEN <<>>
  ELSE IF binding[1].iframe # <<>>
       THEN <<[type |-> "object", url |-> binding[1].iframe]>>
       ELSE <<[type |-> "boolean", value |-> TRUE]>>

\* C21: display.twake.tab (and likewise standalone) of an import is undefined
\* for an absent channel_tab (app) binding, the object with the iframe's url
\* for a binding with an iframe, and true for a binding without one.
C21_BindingOrFlag ==
  imp # Unused /\ imp.step = "imported" /\ imp.result # <<>> =>
    /\ imp.result[1].display.twake.tab =
         ExpectedBinding(Member(DrawnDisplay, "channel_tab"))
    /\ imp.result[1].display.twake.standalone =
         ExpectedBinding(Member(DrawnDisplay, "app"))

\* The legacy display without one of its members.
Without(depreciatedDisplay, member) ==
  IF depreciatedDisplay.type = "object"
  THEN [depreciatedDisplay EXCEPT ![member] = <<>>]
  ELSE depreciatedDisplay

\* C22: in an import, files is defined exactly when the legacy display has a
\* drive module and chat exactly when it has a messages module, and each is
\* what the import gives for the same display without the other module.
C22_ModulesIndependent ==
  imp # Unused /\ imp.step = "imported" /\ imp.result # <<>> =>
    LET twake == imp.result[1].display.twake
        application == importedFields(imp.application, 0, 0)
    IN  /\ (twake.files # <<>>) <=> (Member(DrawnDisplay, "drive_module") # <<>>)
        /\ (twake.chat # <<>>) <=> (Member(DrawnDisplay, "messages_module") # <<>>)
        /\ twake.files =
             importDepreciatedDisplayFields(
               application, Without(DrawnDisplay, "messages_module")).twake.files
        /\ twake.chat =
             importDepreciatedDisplayFields(
               application, Without(DrawnDisplay, "drive_module")).twake.chat

\* C22's case: a record with a drive module and no messages module has been
\* imported, with files defined and chat undefined.
C22_Witness ==
  /\ imp # Unused /\ imp.step = "imported" /\ imp.result # <<>>
  /\ Member(DrawnDisplay, "drive_module") # <<>>
  /\ Member(DrawnDisplay, "messages_module") = <<>>
  /\ imp.result[1].display.twake.files # <<>>
  /\ imp.result[1].display.twake.chat = <<>>

\* C26: each of access.read, write, delete and hooks of an import is a list,
\* whatever JSON its column holds.
C26_AccessAreLists ==
  imp # Unused /\ imp.step = "imported" /\ imp.result # <<>> =>
    \A target \in {"read", "write", "delete", "hooks"} :
      imp.result[1].access[target].type = "array"

\* ------------------------------------------------- claims on the publication

\* C23: no step leaves a record that was stored unpublished stored as
\* published.
C23_NeverPublishes ==
  [][ \A id \in DOMAIN store \cap DOMAIN store' :
        ~store[id].publication.published => ~store'[id].publication.published
    ]_allVars


\* ================================= updates and a publication from outside

\* The moderators publish the stored record: a write of the store by another
\* service, which may come between the awaits of a save request.
externalPublish ==
  /\ race.id \in DOMAIN store
  /\ ~store[race.id].publication.published
  /\ store' = [store EXCEPT ![race.id].publication.published = TRUE]
  /\ UNCHANGED <<keyCtr, last, hist, imp, mig, reg, ev, race, hook>>

PublishRaceNext ==
  \/ \E r \in Requests : updateReads(r) \/ updateWrites(r)
  \/ externalPublish

SpecPublishRace == RaceInit /\ [][PublishRaceNext]_allVars

\* C24: the save of an update that does not withdraw the publication request
\* never turns the stored published from true to false, wherever the
\* publication from outside falls.
C24_UpdateKeepsPublished ==
  [][ \A r \in Requests :
        ( /\ race.pc[r] = "modified" /\ race'.pc[r] = "returned"
          /\ race.app[r].publication.requested # FALSE
          /\ store[race.id].publication.published )
        => store'[race.id].publication.published ]_allVars

\* --------------------------------------------------- claim on the private key

\* C25: no answer of get or update to a caller who is not an administrator of
\* the record's company carries the private key of the stored record.  save
\* never looks the caller's membership up, so every update is answered as
\* that of a caller without one (role "none").
C25_KeyOnlyForAdmins ==
  ( /\ last.op \in {"get", "update"} /\ last.status = "ok"
    /\ last.role # "admin" /\ last.id \in DOMAIN store )
  => ~ ( /\ "api" \in DOMAIN last.resource[1]
         /\ store[last.id].api.private_key # NoKey
         /\ last.resource[1].api.private_key = store[last.id].api.private_key )

====
